---- MODULE Spec2Model ----
(***************************************************************************)
(* A model of ShotLoader_v1.py: the raw-signal conditioning routine        *)
(* CleanUp, the DAS.conf parser ShotData.LoadCalData, the per-group        *)
(* processing methods CalcIp / ProcFL / ProcBdot and the driver main.      *)
(*                                                                         *)
(* Floating point numbers are modelled as extended rationals <<n, d>> in   *)
(* lowest terms: d > 0 is the real n/d, <<0,0>> is NaN, <<1,0>> and        *)
(* <<-1,0>> are +inf and -inf.  Rounding is not modelled.                  *)
(*                                                                         *)
(* Text is modelled as a sequence of atoms.  An atom is a string: the      *)
(* single characters "[", "]", " ", "\t", "\n", ".", "-", the digits, or a *)
(* run of other characters (a word such as "CFL01") that none of the       *)
(* operations below ever has to look inside.                               *)
(***************************************************************************)
EXTENDS Integers, Sequences, FiniteSets, TLC

VARIABLES
    signal,     \* the argument `signal` of a direct call of CleanUp
    intFlag,    \* the argument `intFlag` of that call
    ret,        \* what that call produced
    conf,       \* the file DAS.conf of the shot folder
    pc,         \* the statement of main that runs next
    err,        \* the exception that ended main, if one did
    calFile,    \* self.calFile
    files,      \* the .ibw files of the shot folder, by channel name
    naTable,    \* the dictionary BdotNA() returns
    raw,        \* self.raw
    calData     \* self.calData

cleanVars == <<signal, intFlag, ret>>

calVars == <<conf, pc, err, calFile>>

shotVars == <<files, naTable, raw, calData>>

vars == <<signal, intFlag, ret, conf, pc, err, calFile,
          files, naTable, raw, calData>>

(***************************************************************************)
(* Bounds of the model.                                                    *)
(***************************************************************************)
MaxLen == 4     \* longest raw record (number of samples)
MaxVal == 2     \* raw sample values are drawn from 0..MaxVal

(***************************************************************************)
(* numpy float64 arithmetic on extended rationals.                         *)
(***************************************************************************)
RECURSIVE Gcd(_, _)
Gcd(a, b) == IF b = 0 THEN a ELSE Gcd(b, a % b)

Abs(x) == IF x < 0 THEN -x ELSE x

Sign(x) == IF x > 0 THEN 1 ELSE IF x < 0 THEN -1 ELSE 0

Norm(n, d) ==
    IF d = 0 THEN <<Sign(n), 0>>
    ELSE LET s == IF d < 0 THEN -1 ELSE 1
             g == Gcd(Abs(n), Abs(d))
         IN  <<(s * n) \div g, (s * d) \div g>>

NaN == <<0, 0>>

IsNaN(x) == x = NaN

Flt(k) == <<k, 1>>

FNeg(a) == <<-a[1], a[2]>>

FAdd(a, b) ==
    IF IsNaN(a) \/ IsNaN(b) THEN NaN
    ELSE IF a[2] = 0 /\ b[2] = 0 THEN (IF a = b THEN a ELSE NaN)
    ELSE IF a[2] = 0 THEN a
    ELSE IF b[2] = 0 THEN b
    ELSE LET g == Gcd(a[2], b[2])
         IN  Norm(a[1] * (b[2] \div g) + b[1] * (a[2] \div g),
                  (a[2] \div g) * b[2])

FSub(a, b) == FAdd(a, FNeg(b))

FMul(a, b) ==
    IF IsNaN(a) \/ IsNaN(b) THEN NaN
    ELSE LET g1 == Gcd(Abs(a[1]), b[2])
             g2 == Gcd(Abs(b[1]), a[2])
             h1 == IF g1 = 0 THEN 1 ELSE g1
             h2 == IF g2 = 0 THEN 1 ELSE g2
         IN  Norm((a[1] \div h1) * (b[1] \div h2),
                  (a[2] \div h2) * (b[2] \div h1))

\* 1/b: 1/0 is +inf, 1/inf is 0.
FRecip(b) ==
    IF b[1] = 0 THEN (IF b[2] = 0 THEN NaN ELSE <<1, 0>>)
    ELSE Norm(b[2] * Sign(b[1]), Abs(b[1]))

\* x/0 is NaN for x = 0 and an infinity otherwise (a RuntimeWarning, never
\* an exception, for numpy scalars).
FDiv(a, b) ==
    IF IsNaN(a) \/ IsNaN(b) THEN NaN ELSE FMul(a, FRecip(b))

\* The comparisons of IEEE 754: every comparison with NaN is false.
FLt(a, b) ==
    /\ ~IsNaN(a)
    /\ ~IsNaN(b)
    /\ IF a[2] = 0 /\ b[2] = 0 THEN a[1] < b[1]
       ELSE a[1] * b[2] < b[1] * a[2]

FEq(a, b) == ~IsNaN(a) /\ ~IsNaN(b) /\ a = b

RECURSIVE FSum(_)
FSum(s) == IF s = <<>> THEN Flt(0) ELSE FAdd(Head(s), FSum(Tail(s)))

\* s[idx[1]], s[idx[2]], ...: numpy's s[idx] for an index array idx.
Take(s, idx) == [k \in 1..Len(idx) |-> s[idx[k]]]

\* np.mean: the sum over the count, so the mean of nothing is 0/0 = NaN.
Mean(s) == FDiv(FSum(s), Flt(Len(s)))

(***************************************************************************)
(* IgorLoad and CleanUp.                                                   *)
(*                                                                         *)
(* A raw signal is [ndarray, deltaX, data].  IgorLoad returns the wave of  *)
(* the file (data a numpy array, deltaX a float) or, when the file is not  *)
(* there, {'deltaX': [], 'data': []}: two empty Python lists.              *)
(***************************************************************************)
NoData == [ndarray |-> FALSE, deltaX |-> <<>>, data |-> <<>>]

Wave(dx, samples) == [ndarray |-> TRUE, deltaX |-> dx, data |-> samples]

dStart == Flt(0)

dEnd == <<1, 1000>>

\* sigTime = dx * np.arange(npts); an empty list times an empty arange is
\* an empty array.
SigTime(sig) ==
    [i \in 1..Len(sig.data) |-> FMul(sig.deltaX, Flt(i - 1))]

RECURSIVE FlatNonZero(_, _)
FlatNonZero(mask, i) ==
    IF i > Len(mask) THEN <<>>
    ELSE (IF mask[i] THEN <<i>> ELSE <<>>) \o FlatNonZero(mask, i + 1)

\* dRange = np.flatnonzero((sigTime > dStart) & (sigTime < dEnd))
DRange(sigTime) ==
    FlatNonZero([i \in 1..Len(sigTime) |->
                    FLt(dStart, sigTime[i]) /\ FLt(sigTime[i], dEnd)], 1)

\* np.mean(sig[dRange]): the baseline offset.
Offset(sig) == Mean(Take(sig.data, DRange(SigTime(sig))))

\* offSig = sig - np.mean(sig[dRange])
OffSig(sig) ==
    LET m == Offset(sig)
    IN  [i \in 1..Len(sig.data) |-> FSub(sig.data[i], m)]

\* integrate.cumtrapz(y, x=t, initial=0) for len(y) >= 1
RECURSIVE CumTrapz(_, _, _)
CumTrapz(y, t, i) ==
    IF i = 1 THEN <<Flt(0)>>
    ELSE LET prev == CumTrapz(y, t, i - 1)
             area == FDiv(FMul(FSub(t[i], t[i - 1]), FAdd(y[i], y[i - 1])),
                          Flt(2))
         IN  Append(prev, FAdd(prev[i - 1], area))

\* The value sequence that enters the drift removal.
PreDrift(sig, flag) ==
    IF flag THEN CumTrapz(OffSig(sig), SigTime(sig), Len(sig.data))
    ELSE OffSig(sig)

\* for i in range(0, len(offSig)): cleanSig[i] -= ...   where cleanSig and
\* offSig are one array: every iteration reads the array as the iterations
\* before it left it.
RECURSIVE DriftLoop(_, _, _)
DriftLoop(arr, t, i) ==
    IF i > Len(arr) THEN arr
    ELSE LET n    == Len(arr)
             line == FDiv(FMul(FSub(arr[n], arr[1]), t[i]),
                          FSub(t[n], t[1]))
         IN  DriftLoop([arr EXCEPT ![i] = FSub(arr[i], line)], t, i + 1)

Raised(e) == [exc |-> e, cleanSig |-> <<>>, sigTime |-> <<>>]

Returned(c, t) == [exc |-> "none", cleanSig |-> c, sigTime |-> t]

CleanUp(sig, flag) ==
    IF ~sig.ndarray
    THEN Raised("TypeError")      \* sig[dRange]: a list indexed by an array
    ELSE IF flag /\ Len(sig.data) = 0
    THEN Raised("ValueError")     \* cumtrapz: x has no len(y) - 1 intervals
    ELSE Returned(DriftLoop(PreDrift(sig, flag), SigTime(sig), 1),
                  SigTime(sig))

(***************************************************************************)
(* SpecClean: CleanUp applied to every raw signal within the bounds.       *)
(***************************************************************************)
DxSet == {<<1, 4000>>, <<1, 2000>>, <<1, 1000>>, <<1, 1>>}

Samples == UNION {[1..n -> {Flt(v) : v \in 0..MaxVal}] : n \in 0..MaxLen}

Signals == {NoData} \cup {Wave(dx, s) : dx \in DxSet, s \in Samples}

Pending == Raised("pending")

InitClean ==
    /\ signal \in Signals
    /\ intFlag \in BOOLEAN
    /\ ret = Pending
    /\ conf = [exists |-> FALSE, lines |-> <<>>]
    /\ pc = "CleanUp"
    /\ err = [exc |-> "none", in |-> "", key |-> ""]
    /\ calFile = [k \in {} |-> 0]
    /\ files = [k \in {} |-> 0]
    /\ naTable = [k \in {} |-> 0]
    /\ raw = [k \in {} |-> 0]
    /\ calData = [k \in {} |-> 0]

CallCleanUp ==
    /\ pc = "CleanUp"
    /\ ret = Pending
    /\ ret' = CleanUp(signal, intFlag)
    /\ UNCHANGED <<signal, intFlag>>

NextClean == CallCleanUp /\ UNCHANGED calVars /\ UNCHANGED shotVars

SpecClean == InitClean /\ [][NextClean]_vars

(***************************************************************************)
(* Text: str.strip, str.split, float and the dictionary self.calFile.      *)
(***************************************************************************)
Whitespace == {" ", "\t", "\n"}

DigitChars == <<"0", "1", "2", "3", "4", "5", "6", "7", "8", "9">>

Digits == {DigitChars[k] : k \in 1..10}

DigitVal(c) == (CHOOSE k \in 1..10 : DigitChars[k] = c) - 1

\* The string an atom sequence spells.
RECURSIVE Join(_)
Join(s) == IF s = <<>> THEN "" ELSE Head(s) \o Join(Tail(s))

RECURSIVE LStrip(_, _)
LStrip(s, chars) ==
    IF s # <<>> /\ Head(s) \in chars THEN LStrip(Tail(s), chars) ELSE s

RECURSIVE RStrip(_, _)
RStrip(s, chars) ==
    IF s # <<>> /\ s[Len(s)] \in chars
    THEN RStrip(SubSeq(s, 1, Len(s) - 1), chars)
    ELSE s

\* s.strip(chars): characters of chars removed from both ends.
Strip(s, chars) == RStrip(LStrip(s, chars), chars)

\* s.split(): the maximal runs of non-whitespace, in order.
RECURSIVE SplitFrom(_, _, _)
SplitFrom(s, i, cur) ==
    IF i > Len(s) THEN (IF cur = <<>> THEN <<>> ELSE <<cur>>)
    ELSE IF s[i] \in Whitespace
    THEN (IF cur = <<>> THEN <<>> ELSE <<cur>>) \o SplitFrom(s, i + 1, <<>>)
    ELSE SplitFrom(s, i + 1, Append(cur, s[i]))

Split(s) == SplitFrom(s, 1, <<>>)

RECURSIVE DigitsValue(_)
DigitsValue(ds) ==
    IF ds = <<>> THEN 0
    ELSE 10 * DigitsValue(SubSeq(ds, 1, Len(ds) - 1)) + DigitVal(ds[Len(ds)])

RECURSIVE Pow10(_)
Pow10(k) == IF k = 0 THEN 1 ELSE 10 * Pow10(k - 1)

\* float(tok) for a decimal literal: [sign] digits [. digits]; anything
\* else of the model's alphabet is a ValueError.
ParseFloat(tok) ==
    LET signed == tok # <<>> /\ tok[1] \in {"-", "+"}
        body   == IF signed THEN Tail(tok) ELSE tok
        dots   == {i \in 1..Len(body) : body[i] = "."}
        digs   == SelectSeq(body, LAMBDA c : c \in Digits)
        ok     == /\ \A i \in 1..Len(body) : body[i] \in Digits \cup {"."}
                  /\ Cardinality(dots) <= 1
                  /\ digs # <<>>
        nfrac  == IF dots = {} THEN 0
                  ELSE Len(body) - (CHOOSE i \in dots : TRUE)
        mag    == Norm(DigitsValue(digs), Pow10(nfrac))
    IN  IF ~ok THEN [ok |-> FALSE, val |-> NaN]
        ELSE [ok  |-> TRUE,
              val |-> IF signed /\ tok[1] = "-" THEN FNeg(mag) ELSE mag]

EmptyDict == [k \in {} |-> 0]

\* d[key] = value
Put(d, key, value) == (key :> value) @@ d

(***************************************************************************)
(* ShotData.LoadCalData.                                                   *)
(***************************************************************************)
HeaderLen == 64

Stride == 7

\* s[start::step], start counted from 0 as in Python.
Slice(s, start, step) ==
    LET n == IF Len(s) <= start THEN 0
             ELSE ((Len(s) - start - 1) \div step) + 1
    IN  [k \in 1..n |-> s[start + 1 + (k - 1) * step]]

\* The header cut one line short: f.readlines()[63:]
DiagLinesFromLine63(lines) == SubSeq(lines, HeaderLen, Len(lines))

\* f.readlines()[64:]
DiagLines(lines) == SubSeq(lines, HeaderLen + 1, Len(lines))

DiagNames(lines) == Slice(DiagLines(lines), 0, Stride)

CalVals(lines) == Slice(DiagLines(lines), 4, Stride)

CalUnits(lines) == Slice(DiagLines(lines), 3, Stride)

\* DiagNames[i].strip('[]\n')
NameOf(line) == Join(Strip(line, {"[", "]", "\n"}))

Loaded(d) == [exc |-> "none", calFile |-> d]

LoadFailed(e, d) == [exc |-> e, calFile |-> d]

\* The unit taken from the first token: CalUnits[i].split()[0]
UnitFirstToken(line) == Join(Split(line)[1])

\* CalUnits[i].split()[-1], for a line that has a token
UnitOf(line) == Join(Split(line)[Len(Split(line))])

\* self.calFile[DiagNames[i].strip('[]\n')] =
\*     [float(CalVals[i].split()[-1]), CalUnits[i].split()[-1]]
CalStep(names, vals, units, i, d) ==
    IF i > Len(vals) THEN LoadFailed("IndexError", d)
    ELSE IF Split(vals[i]) = <<>> THEN LoadFailed("IndexError", d)
    ELSE LET vt == Split(vals[i])
             pf == ParseFloat(vt[Len(vt)])
         IN  IF ~pf.ok THEN LoadFailed("ValueError", d)
             ELSE IF i > Len(units) THEN LoadFailed("IndexError", d)
             ELSE IF Split(units[i]) = <<>> THEN LoadFailed("IndexError", d)
             ELSE Loaded(Put(d, NameOf(names[i]),
                             <<pf.val, UnitOf(units[i])>>))

\* for i in range(len(DiagNames)): the iterations lo..hi in order, from
\* the state st, ending at the first one that raises (the range is halved
\* only to keep the evaluation shallow).
RECURSIVE CalLoop(_, _, _, _, _, _)
CalLoop(names, vals, units, lo, hi, st) ==
    IF st.exc # "none" \/ lo > hi THEN st
    ELSE IF lo = hi THEN CalStep(names, vals, units, lo, st.calFile)
    ELSE LET mid  == (lo + hi) \div 2
             left == CalLoop(names, vals, units, lo, mid, st)
         IN  CalLoop(names, vals, units, mid + 1, hi, left)

ParseCal(file, d) ==
    IF ~file.exists THEN LoadFailed("FileNotFoundError", d)
    ELSE CalLoop(DiagNames(file.lines), CalVals(file.lines),
                 CalUnits(file.lines), 1, Len(DiagNames(file.lines)),
                 Loaded(d))

NoErr == [exc |-> "none", in |-> "", key |-> ""]

Err(e, where, key) == [exc |-> e, in |-> where, key |-> key]

LoadCalData ==
    /\ pc = "LoadCalData"
    /\ LET r == ParseCal(conf, calFile)
       IN  /\ calFile' = r.calFile
           /\ IF r.exc = "none"
              THEN pc' = "CalcIp" /\ err' = err
              ELSE pc' = "aborted" /\ err' = Err(r.exc, "LoadCalData", "")
    /\ UNCHANGED <<conf, files, naTable, raw, calData>>

(***************************************************************************)
(* SpecCal: LoadCalData applied to configuration texts made of a header    *)
(* and up to MaxBlocks complete blocks.                                    *)
(***************************************************************************)
MaxBlocks == 2

NL == "\n"

HeaderLines == {<<"#", NL>>, <<"[", "HDR", "]", " ", "7", NL>>}

FillerLines == {<<NL>>, <<"[", "junk", "]", " ", "9", ".", "5", NL>>}

NameLines ==
    {<<"[", "CFL01", "]", NL>>, <<"[", "CFL02", "]", NL>>,
     <<"[", "CFL01", "]", " ", NL>>}

UnitLines == {<<"V", " ", "3", ".", "1", "4", NL>>,
              <<"units", " ", "=", " ", "Wb", NL>>}

ValueLines == {<<"scale", " ", "2", ".", "5", NL>>,
               <<"cal", "\t", "=", " ", "-", "0", ".", "5", " ", NL>>}

\* One 7-line record: name, two other lines, unit, value, two other lines.
Block(name, unit, value, filler) ==
    <<name, filler, filler, unit, value, filler, filler>>

Blocks(filler) ==
    {Block(n, u, v, filler) : n \in NameLines, u \in UnitLines,
                              v \in ValueLines}

\* The lines of the records bs, one record after the other.
Concat(bs) ==
    [i \in 1..(Stride * Len(bs)) |->
        bs[((i - 1) \div Stride) + 1][((i - 1) % Stride) + 1]]

Header(h) == [i \in 1..HeaderLen |-> h]

ConfTexts ==
    {Header(h) \o Concat(bs) :
        h \in HeaderLines,
        bs \in UNION {UNION {[1..k -> Blocks(f)] : f \in FillerLines} :
                         k \in 0..MaxBlocks}}

InitCal ==
    /\ conf \in {[exists |-> TRUE, lines |-> t] : t \in ConfTexts}
    /\ pc = "LoadCalData"
    /\ err = NoErr
    /\ calFile = EmptyDict
    /\ signal = NoData
    /\ intFlag = FALSE
    /\ ret = Pending
    /\ files = EmptyDict
    /\ naTable = EmptyDict
    /\ raw = EmptyDict
    /\ calData = EmptyDict

NextCal == LoadCalData /\ UNCHANGED cleanVars

SpecCal == InitCal /\ [][NextCal]_vars

(***************************************************************************)
(* ShotData.__init__: the channel names of each group, as written.         *)
(***************************************************************************)
FluxLoops ==
  <<"CFL01", "CFL02", "CFL03", "CFL04", "CFL05", "CFL06", "CFL07",
    "CFL08", "CFL09", "CFL10", "CFL11", "CFL12", "CFL13", "CFL04",
    "CFL05", "CTor1", "CTor2", "CTor3", "CTor4", "CTor5", "CTor6",
    "DiamagA", "DiamagB", "DiamagC", "NCFL01", "NCFL02", "NCFL03",
    "NCFL04", "NCFL05", "NCFL06", "NCFL07", "NCFL08", "NCFL09", "NCFL10",
    "NCFL11", "NCFL12", "NCFL13", "NCFL14", "NCFL15", "NCFL16", "NCFL17",
    "NCFL18", "NCFL19", "NCFL20", "WFL01", "WFL02", "WFL03", "WFL04",
    "WFL05", "WFL06", "WFL07", "WFL08", "WFL09", "WFL10", "WFL11",
    "WFL12", "WFL13", "WFL14", "WFL15", "WFL16">>

BDots ==
  <<"PDX01", "PDX02", "PDX03", "PDX04", "PDX05", "PDX06", "PDX07",
    "PDX08", "PDX09", "PDX10", "PDX11", "PDX12", "PDX13", "OTor1",
    "OTor2", "OTor3", "OTor4", "OTor5", "OTor6", "CTor1", "CTor2",
    "CTor3", "CTor4", "CTor5", "CTor6", "CPA01", "CPA02", "CPA03",
    "CPA04", "CPA05", "CPA06", "CPA07", "CPA08", "CPA09", "CPA10",
    "CPA11", "CPA12", "CPA13", "CPA14", "CPA15", "CPA16", "CPA17",
    "CPA18", "CPA19", "CPA20", "CPA21">>

Currents ==
  <<"PlasmaRogA", "PlasmaRogB", "RT_DPWMi_EF123", "RT_DPWMi_EF45",
    "RT_DPWMi_EF678", "RT_DPWMi_TF">>

BdotPairs ==
  <<<<"PDX01", 31>>, <<"PDX02", 31>>, <<"PDX03", 31>>, <<"PDX04", 30>>,
    <<"PDX05", 30>>, <<"PDX06", 32>>, <<"PDX07", 30>>, <<"PDX08", 30>>,
    <<"PDX09", 31>>, <<"PDX10", 32>>, <<"PDX11", 31>>, <<"PDX12", 29>>,
    <<"PDX13", 31>>, <<"OTor1", 51>>, <<"OTor2", 54>>, <<"OTor3", 54>>,
    <<"OTor4", 50>>, <<"OTor5", 52>>, <<"OTor6", 52>>, <<"CTor1", 176>>,
    <<"CTor2", 203>>, <<"CTor3", 183>>, <<"CTor4", 185>>,
    <<"CTor5", 187>>, <<"CTor6", 214>>, <<"CPA01", 180>>,
    <<"CPA02", 199>>, <<"CPA03", 197>>, <<"CPA04", 185>>,
    <<"CPA05", 187>>, <<"CPA06", 190>>, <<"CPA07", 193>>,
    <<"CPA08", 198>>, <<"CPA09", 183>>, <<"CPA10", 194>>,
    <<"CPA11", 196>>, <<"CPA12", 185>>, <<"CPA13", 191>>,
    <<"CPA14", 193>>, <<"CPA15", 173>>, <<"CPA16", 172>>,
    <<"CPA17", 182>>, <<"CPA18", 209>>, <<"CPA19", 182>>,
    <<"CPA20", 185>>, <<"CPA21", 175>>>>

\* BdotNA: 1/NA by probe name (each value rounded to the nearest integer).
BdotDict ==
    [n \in {BdotPairs[k][1] : k \in 1..Len(BdotPairs)} |->
        Flt(BdotPairs[CHOOSE k \in 1..Len(BdotPairs) :
                          BdotPairs[k][1] = n][2])]

\* self.sigs
sigs == [FluxLoops |-> FluxLoops, BDots |-> BDots, Currents |-> Currents]

Groups == {"FluxLoops", "BDots", "Currents"}

Range(s) == {s[i] : i \in 1..Len(s)}

\* The keys of a dictionary filled in the order of s: each name once, at
\* its first place.
Dedup(s) ==
    LET firsts == {i \in 1..Len(s) : \A j \in 1..(i - 1) : s[j] # s[i]}
    IN  [k \in 1..Cardinality(firsts) |->
            s[CHOOSE i \in firsts :
                Cardinality({j \in firsts : j < i}) = k - 1]]

AllNames == Range(FluxLoops) \cup Range(BDots) \cup Range(Currents)

\* self.raw['FluxLoops'].keys() and self.raw['BDots'].keys()
FluxLoopKeys == Dedup(sigs.FluxLoops)

BDotKeys == Dedup(sigs.BDots)

(***************************************************************************)
(* IgorLoad, LoadRaw, CalcIp, ProcFL, ProcBdot, main.                      *)
(***************************************************************************)
IgorLoad(signame) ==
    IF files[signame].exists THEN files[signame].wave ELSE NoData

EmptyChannel == [data |-> <<>>, time |-> <<>>]

Channel(d, t) == [data |-> d, time |-> t]

\* k * cleanSig
Scaled(k, sig) == [i \in 1..Len(sig) |-> FMul(k, sig[i])]

NoCalData == [FluxLoops |-> EmptyDict, BDots |-> EmptyDict,
              Currents |-> EmptyDict]

Abort(e) == pc' = "aborted" /\ err' = e

LoadRaw ==
    /\ pc = "LoadRaw"
    /\ raw' = [g \in Groups |-> [sig \in Range(sigs[g]) |-> IgorLoad(sig)]]
    /\ pc' = "LoadCalData"
    /\ UNCHANGED <<conf, err, calFile, files, naTable, calData>>

CalcIp ==
    /\ pc = "CalcIp"
    /\ LET c == CleanUp(raw.Currents["PlasmaRogB"], TRUE)
       IN  IF c.exc # "none"
           THEN Abort(Err(c.exc, "CalcIp", "PlasmaRogB"))
                /\ calData' = calData
           ELSE IF "PlasmaRogB" \notin DOMAIN calFile
           THEN Abort(Err("KeyError", "CalcIp", "PlasmaRogB"))
                /\ calData' = calData
           ELSE /\ calData' =
                     [calData EXCEPT !.Currents =
                         Put(@, "Ip",
                             Channel(Scaled(calFile["PlasmaRogB"][1],
                                            c.cleanSig), c.sigTime))]
                /\ pc' = "ProcFL"
                /\ err' = err
    /\ UNCHANGED <<conf, calFile, files, naTable, raw>>

Ran(e, out) == [err |-> e, out |-> out]

\* The body of the loop of ProcFL for the key sig.
FLStep(sig, out) ==
    LET c == CleanUp(raw.FluxLoops[sig], TRUE)
    IN  IF c.exc = "TypeError"
        THEN Ran(NoErr, Put(out, sig, EmptyChannel))
        ELSE IF c.exc # "none"
        THEN Ran(Err(c.exc, "ProcFL", sig), out)
        ELSE IF sig \notin DOMAIN calFile
        THEN Ran(Err("KeyError", "ProcFL", sig), out)
        ELSE Ran(NoErr,
                 Put(out, sig,
                     Channel(Scaled(calFile[sig][1], c.cleanSig),
                             c.sigTime)))

\* for sig in FluxLoops.keys(): the iterations lo..hi in order, ending at
\* the first one that raises.
RECURSIVE FLLoop(_, _, _, _)
FLLoop(keys, lo, hi, st) ==
    IF st.err # NoErr \/ lo > hi THEN st
    ELSE IF lo = hi THEN FLStep(keys[lo], st.out)
    ELSE LET mid  == (lo + hi) \div 2
             left == FLLoop(keys, lo, mid, st)
         IN  FLLoop(keys, mid + 1, hi, left)

ProcFL ==
    /\ pc = "ProcFL"
    /\ LET keys == FluxLoopKeys
           r    == FLLoop(keys, 1, Len(keys), Ran(NoErr, calData.FluxLoops))
       IN  /\ calData' = [calData EXCEPT !.FluxLoops = r.out]
           /\ IF r.err = NoErr
              THEN pc' = "ProcBdot" /\ err' = err
              ELSE Abort(r.err)
    /\ UNCHANGED <<conf, calFile, files, naTable, raw>>

\* The body of the loop of ProcBdot for the key sig.  In
\* OneOverNA[sig] * float(self.calFile[sig][0]) * cleanSig the factor
\* OneOverNA[sig] is looked up first, and after CleanUp has returned.
BdotStep(OneOverNA, sig, out) ==
    LET c == CleanUp(raw.BDots[sig], TRUE)
    IN  IF c.exc = "TypeError"
        THEN Ran(NoErr, Put(out, sig, EmptyChannel))
        ELSE IF c.exc # "none"
        THEN Ran(Err(c.exc, "ProcBdot", sig), out)
        ELSE IF sig \notin DOMAIN OneOverNA
        THEN Ran(Err("KeyError", "ProcBdot", sig), out)
        ELSE IF sig \notin DOMAIN calFile
        THEN Ran(Err("KeyError", "ProcBdot", sig), out)
        ELSE Ran(NoErr,
                 Put(out, sig,
                     Channel(Scaled(FMul(OneOverNA[sig], calFile[sig][1]),
                                    c.cleanSig), c.sigTime)))

\* for sig in BDots.keys(): the iterations lo..hi in order, ending at the
\* first one that raises.
RECURSIVE BdotLoop(_, _, _, _, _)
BdotLoop(OneOverNA, keys, lo, hi, st) ==
    IF st.err # NoErr \/ lo > hi THEN st
    ELSE IF lo = hi THEN BdotStep(OneOverNA, keys[lo], st.out)
    ELSE LET mid  == (lo + hi) \div 2
             left == BdotLoop(OneOverNA, keys, lo, mid, st)
         IN  BdotLoop(OneOverNA, keys, mid + 1, hi, left)

ProcBdot ==
    /\ pc = "ProcBdot"
    /\ LET keys == BDotKeys
           r    == BdotLoop(naTable, keys, 1, Len(keys),
                            Ran(NoErr, calData.BDots))
       IN  /\ calData' = [calData EXCEPT !.BDots = r.out]
           /\ IF r.err = NoErr
              THEN pc' = "done" /\ err' = err
              ELSE Abort(r.err)
    /\ UNCHANGED <<conf, calFile, files, naTable, raw>>

(***************************************************************************)
(* Spec: main on a shot folder.  Up to MaxFaults things are wrong with the *)
(* folder or the table: a raw file is not there, DAS.conf has no record    *)
(* of a channel, the table of BdotNA has no factor for a channel.          *)
(***************************************************************************)
MaxFaults == 2

RawProbe == {"PlasmaRogB", "CFL01", "CFL05", "CTor1", "WFL16", "PDX01",
             "CPA21"}

CalProbe == RawProbe

NAProbe == {"PDX01", "CTor1"}

ShotWaves ==
    {Wave(<<1, 4000>>, <<Flt(1), Flt(2), Flt(0), Flt(2)>>),
     Wave(<<1, 1>>, <<Flt(5), Flt(5), Flt(5)>>)}

ConfKinds == {"ok", "absent", "badvalue", "trailing"}

UnitLine == <<"units", " ", "=", " ", "V", NL>>

ValueLine == <<"cal", " ", "=", " ", "2", ".", "5", NL>>

BadValueLine == <<"cal", " ", "=", " ", "n/a", NL>>

Record(name, value) ==
    Block(<<"[", name, "]", NL>>, UnitLine, value, <<NL>>)

\* DAS.conf with one record for each name of names, in that order.
ConfOf(names, kind) ==
    [exists |-> kind # "absent",
     lines  |-> Header(<<"#", NL>>)
                \o Concat([i \in 1..Len(names) |->
                             Record(names[i],
                                    IF kind = "badvalue" /\ i = Len(names)
                                    THEN BadValueLine ELSE ValueLine)])
                \o (IF kind = "trailing" THEN <<<<NL>>>> ELSE <<>>)]

Without(s, drop) == SelectSeq(s, LAMBDA x : x \notin drop)

\* The channels DAS.conf may have a record of.
ConfNames == Dedup(FluxLoops \o BDots \o Currents)

Init ==
    /\ pc = "LoadRaw"
    /\ err = NoErr
    /\ calFile = EmptyDict
    /\ raw = [g \in Groups |-> EmptyDict]
    /\ calData = NoCalData
    /\ signal = NoData
    /\ intFlag = FALSE
    /\ ret = Pending
    /\ \E absent \in SUBSET RawProbe, noCal \in SUBSET CalProbe,
          dropped \in SUBSET NAProbe, w \in ShotWaves, kind \in ConfKinds :
          /\ Cardinality(absent) + Cardinality(noCal)
                + Cardinality(dropped) <= MaxFaults
          /\ files = [n \in AllNames |->
                         [exists |-> n \notin absent, wave |-> w]]
          /\ conf = ConfOf(Without(ConfNames, noCal), kind)
          /\ naTable = [n \in DOMAIN BdotDict \ dropped |-> BdotDict[n]]

Next ==
    \/ LoadRaw /\ UNCHANGED cleanVars
    \/ LoadCalData /\ UNCHANGED cleanVars
    \/ CalcIp /\ UNCHANGED cleanVars
    \/ ProcFL /\ UNCHANGED cleanVars
    \/ ProcBdot /\ UNCHANGED cleanVars

Spec == Init /\ [][Next]_vars

(***************************************************************************)
(* Properties of CleanUp, checked under SpecClean.                         *)
(***************************************************************************)
Called == ret # Pending

NPts == Len(signal.data)

\* The samples i whose time lies in the half-open window [0, 0.001).
HalfOpenWindow(t) ==
    FlatNonZero([i \in 1..Len(t) |->
                    ~FLt(t[i], Flt(0)) /\ ~IsNaN(t[i]) /\ FLt(t[i], dEnd)], 1)

\* C4: condition(raw, integrate) reports an error instead of returning a
\* result when samples is empty, when no sample time lies in the window
\* the baseline is averaged over, and when the record is a single sample
\* (time[-1] = time[0]); and no value it returns is NaN.
C4_DegenerateReported ==
    Called =>
      /\ NPts = 0 => ret.exc # "none"
      /\ (NPts > 0 /\ DRange(SigTime(signal)) = <<>>) => ret.exc # "none"
      /\ NPts = 1 => ret.exc # "none"
      /\ \A i \in 1..Len(ret.cleanSig) : ~IsNaN(ret.cleanSig[i])

\* C7: the offset subtracted from every sample is the mean of exactly the
\* samples i with 0 <= time[i] < 0.001: the sample at time 0 is included,
\* a sample at exactly 0.001 is not.
C7_HalfOpenBaseline ==
    (Called /\ signal.ndarray /\ NPts >= 1) =>
        Offset(signal)
          = Mean(Take(signal.data, HalfOpenWindow(SigTime(signal))))

\* C10: for a record of at least two samples, every index i has
\* (b - a) * (time[i] - t0) / (t1 - t0) subtracted, a and b the first and
\* last value as they were before the drift removal started; so the first
\* and the last returned value are equal.
C10_SecantRemoved ==
    (Called /\ signal.ndarray /\ NPts >= 2) =>
        LET pre == PreDrift(signal, intFlag)
            t   == SigTime(signal)
            a   == pre[1]
            b   == pre[NPts]
        IN  /\ ret.exc = "none"
            /\ \A i \in 1..NPts :
                 ret.cleanSig[i]
                   = FSub(pre[i], FDiv(FMul(FSub(b, a), FSub(t[i], t[1])),
                                       FSub(t[NPts], t[1])))
            /\ FEq(ret.cleanSig[1], ret.cleanSig[NPts])

\* What remains of C10 on the code: the secant of the array as it was before
\* the loop is what every index gets subtracted (the loop's updating the
\* array in place changes nothing), and the two ends come out equal
\* whenever some sample lies in the window the code averages over.
DriftSecantOfTheOriginalEnds ==
    (Called /\ signal.ndarray /\ NPts >= 2) =>
        LET pre == PreDrift(signal, intFlag)
            t   == SigTime(signal)
        IN  /\ \A i \in 1..NPts :
                 ret.cleanSig[i]
                   = FSub(pre[i],
                          FDiv(FMul(FSub(pre[NPts], pre[1]),
                                    FSub(t[i], t[1])),
                               FSub(t[NPts], t[1])))
            /\ DRange(t) # <<>> => FEq(ret.cleanSig[1], ret.cleanSig[NPts])

(***************************************************************************)
(* Properties of LoadCalData, checked under SpecCal.                       *)
(***************************************************************************)
LoadEnded == pc # "LoadCalData"

BlockCount == (Len(conf.lines) - HeaderLen) \div 7

\* Line 64 + 7j + off of the file, for the block j = 0, 1, ...
LineAt(j, off) == conf.lines[64 + 7 * j + off + 1]

MinOf(S) == CHOOSE x \in S : \A y \in S : x <= y

MaxOf(S) == CHOOSE x \in S : \A y \in S : x >= y

\* The part of a line between its first and its last character outside
\* chars.
Inside(line, chars) ==
    LET keep == {i \in 1..Len(line) : line[i] \notin chars}
    IN  IF keep = {} THEN <<>> ELSE SubSeq(line, MinOf(keep), MaxOf(keep))

\* The last whitespace-separated token of a line that has one.
LastTokenOf(line) ==
    LET e == MaxOf({i \in 1..Len(line) : line[i] \notin Whitespace})
        b == MaxOf({i \in 0..(e - 1) : i = 0 \/ line[i] \in Whitespace})
    IN  SubSeq(line, b + 1, e)

\* What the block j is to be mapped to.
EntryOf(j) ==
    <<ParseFloat(LastTokenOf(LineAt(j, 4))).val,
      Join(LastTokenOf(LineAt(j, 3)))>>

\* The name of block j with brackets and trailing whitespace and newline
\* stripped.
ClaimedName(j) == Join(Inside(LineAt(j, 0), {"[", "]"} \cup Whitespace))

\* The name of block j with the characters "[", "]" and newline stripped
\* from both ends.
StrippedName(j) == Join(Inside(LineAt(j, 0), {"[", "]", "\n"}))

\* C8 as stated: after a header of 64 lines and k complete 7-line blocks
\* the store maps, for every block j, the name of line 64+7j (brackets and
\* trailing whitespace and newline stripped) to (the last token of line
\* 64+7j+4 as a real, the last token of line 64+7j+3).
C8_FixedStrideAsStated ==
    LoadEnded =>
        /\ pc = "CalcIp"
        /\ \A j \in 0..(BlockCount - 1) :
             /\ ClaimedName(j) \in DOMAIN calFile
             /\ calFile[ClaimedName(j)] = EntryOf(j)

\* C8, amended: the name is line 64+7j with every leading and trailing "[",
\* "]" and newline removed and nothing else; the store holds exactly these
\* names, and each is mapped to the values of the last block that has it.
\* The header and the lines at the block offsets 1, 2, 5 and 6 do not enter.
C8_FixedStride ==
    LoadEnded =>
        /\ pc = "CalcIp"
        /\ DOMAIN calFile = {StrippedName(j) : j \in 0..(BlockCount - 1)}
        /\ \A j \in 0..(BlockCount - 1) :
             (\A l \in (j + 1)..(BlockCount - 1) :
                    StrippedName(l) # StrippedName(j))
                => calFile[StrippedName(j)] = EntryOf(j)

\* A load of two blocks with different names, a header whose lines look
\* like a name line and other lines that look like a value line.
C8_Witness ==
    /\ pc = "CalcIp"
    /\ BlockCount >= 2
    /\ StrippedName(0) # StrippedName(1)
    /\ conf.lines[1] = <<"[", "HDR", "]", " ", "7", NL>>
    /\ LineAt(0, 1) = <<"[", "junk", "]", " ", "9", ".", "5", NL>>
    /\ Cardinality(DOMAIN calFile) = 2

\* The text of the scenario: after the header the one block
\* "[CFL01]", x, x, "V 3.14", "scale 2.5", x, x.
CraftedBlock ==
    /\ BlockCount = 1
    /\ LineAt(0, 0) = <<"[", "CFL01", "]", NL>>
    /\ LineAt(0, 3) = <<"V", " ", "3", ".", "1", "4", NL>>
    /\ LineAt(0, 4) = <<"scale", " ", "2", ".", "5", NL>>

\* C9 as stated: the crafted block yields {CFL01: (2.5, "V")}.
C9_CraftedBlockAsStated ==
    (LoadEnded /\ CraftedBlock) =>
        calFile = ("CFL01" :> <<<<5, 2>>, "V">>)

\* C9, amended: the crafted block yields {CFL01: (2.5, "3.14")}: the unit
\* is the last token of the line at offset 3.
C9_CraftedBlock ==
    (LoadEnded /\ CraftedBlock) =>
        /\ pc = "CalcIp"
        /\ calFile = ("CFL01" :> <<<<5, 2>>, "3.14">>)

C9_Witness == pc = "CalcIp" /\ CraftedBlock /\ DOMAIN calFile = {"CFL01"}

(***************************************************************************)
(* Properties of main, checked under Spec.                                 *)
(***************************************************************************)
Method == [FluxLoops |-> "ProcFL", BDots |-> "ProcBdot"]

Keys == [FluxLoops |-> FluxLoopKeys, BDots |-> BDotKeys]

\* The run of the group's method has returned.
Finished(g) ==
    IF g = "FluxLoops" THEN pc \in {"ProcBdot", "done"}
                            \/ (pc = "aborted" /\ err.in = "ProcBdot")
    ELSE pc = "done"

\* The run of the group's method has returned or raised.
Ended(g) == Finished(g) \/ (pc = "aborted" /\ err.in = Method[g])

RawMissing(g, sig) == raw[g][sig] = NoData

HasFactor(g, sig) == g = "BDots" => sig \in DOMAIN naTable

\* What the group's method stores for a channel that has data, a
\* calibration entry and (a field coil) a factor.
Calibrated(g, sig) ==
    LET c == CleanUp(raw[g][sig], TRUE)
        k == IF g = "BDots" THEN FMul(naTable[sig], calFile[sig][1])
             ELSE calFile[sig][1]
    IN  Channel(Scaled(k, c.cleanSig), c.sigTime)

\* C1: a run of ProcFL or ProcBdot is never ended by a channel that has no
\* entry in the calibration store; every such channel gets the empty
\* channel and every other channel of the group gets its output.
C1_MissingCalibrationIsolated ==
    \A g \in {"FluxLoops", "BDots"} :
        /\ ~(/\ pc = "aborted"
             /\ err.in = Method[g]
             /\ err.exc = "KeyError"
             /\ err.key \notin DOMAIN calFile
             /\ HasFactor(g, err.key))
        /\ Finished(g) =>
             \A sig \in Range(Keys[g]) :
                /\ sig \in DOMAIN calData[g]
                /\ sig \notin DOMAIN calFile
                      => calData[g][sig] = EmptyChannel

\* C2: after every run of ProcFL or ProcBdot every channel of the group has
\* an entry: the empty channel when its raw file was not there, its
\* calibrated output otherwise.
C2_MissingRawIsolated ==
    \A g \in {"FluxLoops", "BDots"} :
        Ended(g) =>
            \A sig \in Range(Keys[g]) :
                /\ sig \in DOMAIN calData[g]
                /\ RawMissing(g, sig) => calData[g][sig] = EmptyChannel
                /\ (~RawMissing(g, sig) /\ sig \in DOMAIN calFile
                        /\ HasFactor(g, sig))
                      => calData[g][sig] = Calibrated(g, sig)

\* What remains of C2 on the code: a missing raw file never ends a run, the
\* channels stored so far hold what C2 says, and a run that returns has
\* stored every channel of the group.
MissingRawAloneIsIsolated ==
    \A g \in {"FluxLoops", "BDots"} :
        /\ (pc = "aborted" /\ err.in = Method[g])
              => /\ ~RawMissing(g, err.key)
                 /\ err.exc = "KeyError"
                 /\ err.key \notin DOMAIN calFile \/ ~HasFactor(g, err.key)
        /\ \A sig \in DOMAIN calData[g] :
              IF RawMissing(g, sig) THEN calData[g][sig] = EmptyChannel
              ELSE calData[g][sig] = Calibrated(g, sig)
        /\ Finished(g) => DOMAIN calData[g] = Range(Keys[g])

\* C3: nothing but the load of the calibration file ends the shot; when
\* the raw data or the calibration entry of PlasmaRogB is not there, the
\* derived channel Ip is the empty channel and the groups are processed.
C3_CurrentFailureIsolated ==
    /\ pc = "aborted" => err.in = "LoadCalData"
    /\ (/\ pc \in {"ProcFL", "ProcBdot", "done"}
        /\ \/ RawMissing("Currents", "PlasmaRogB")
           \/ "PlasmaRogB" \notin DOMAIN calFile)
          => /\ "Ip" \in DOMAIN calData.Currents
             /\ calData.Currents["Ip"] = EmptyChannel

\* C5: no channel name is in the list of two groups, so none is loaded
\* under two groups.
C5_GroupsDisjoint ==
    pc # "LoadRaw" =>
        \A g1 \in Groups : \A g2 \in Groups \ {g1} :
            /\ Range(sigs[g1]) \cap Range(sigs[g2]) = {}
            /\ DOMAIN raw[g1] \cap DOMAIN raw[g2] = {}

====
